---- MODULE Spec2Model ----
(***************************************************************************)
(* hranalytics.py: a Streamlit script.  Every run of the script loads the  *)
(* HR dataset through the st.cache_data cache, reads the sidebar widgets,  *)
(* filters the dataset, stores the filtered view in st.session_state and   *)
(* renders four tabs of aggregations followed by a footer.  A widget       *)
(* interaction reruns the script from the top.                             *)
(*                                                                         *)
(* Numbers that pandas holds as floats are modelled exactly, as fractions  *)
(* [nan, num, den] with den > 0; NaN is the fraction whose nan flag is set.*)
(***************************************************************************)
EXTENDS Integers, Sequences, FiniteSets, TLC

VARIABLES
    file,          \* HR_Analytics.csv on disk: [ok, rows]
    cache,         \* st.cache_data store of load_data: <<>> or <<entry>>
    df,            \* the script's global df in the current run
    widgets,       \* the session's widget state (the user's selections)
    criteria,      \* departments, roles, gender_filter, exp_range of this run
    session,       \* st.session_state.filtered_df
    pc,            \* position of the current run in the script
    shown,         \* elements rendered by the current run, in order
    metrics,       \* tab 1: attrition_rate, avg_satisfaction, avg_salary, deltas
    dept_attrition,\* tab 1: Department -> attrition rate
    salary_stats,  \* tab 3: JobRole -> salary statistics
    satisfaction   \* tab 4: crosstab, multi-field mean, long-form table

vars == <<file, cache, df, widgets, criteria, session, pc, shown,
          metrics, dept_attrition, salary_stats, satisfaction>>

(***************************************************************************)
(* Bounds of the model                                                     *)
(***************************************************************************)
\* longest dataset enumerated for the filter/aggregate pipeline (SpecFilter)
MaxRecords == 3
\* longest HR_Analytics.csv enumerated for the interactive session (Spec)
MaxFileRecords == 2

(***************************************************************************)
(* Records: the columns of HR_Analytics.csv that the script reads          *)
(***************************************************************************)
Emp(dept, role, gender, years, attrition, income, hike, js, es, rs, wlb) ==
    [Department |-> dept, JobRole |-> role, Gender |-> gender,
     TotalWorkingYears |-> years, Attrition |-> attrition,
     MonthlyIncome |-> income, PercentSalaryHike |-> hike,
     JobSatisfaction |-> js, EnvironmentSatisfaction |-> es,
     RelationshipSatisfaction |-> rs, WorkLifeBalance |-> wlb]

E1 == Emp("Sales", "Sales Executive", "Male", 1, "Yes", 4000, 11, 4, 2, 1, 1)
E2 == Emp("Sales", "Sales Executive", "Female", 2, "No", 5000, 14, 2, 3, 4, 3)
E3 == Emp("Research & Development", "Research Scientist", "Male", 3, "No", 6000, 12, 3, 4, 2, 3)
E4 == Emp("Research & Development", "Laboratory Technician", "Female", 1, "Yes", 3000, 15, 1, 1, 3, 2)

Employees == {E1, E2, E3, E4}
\* the employees of the files enumerated for the interactive session
SessionEmployees == {E1, E3}

\* four employees that differ in experience only: 1, 2, 5 and 10 years
X1 == Emp("Sales", "Sales Executive", "Male", 1, "No", 4000, 11, 3, 3, 3, 3)
X2 == Emp("Sales", "Sales Executive", "Male", 2, "Yes", 4000, 11, 3, 3, 3, 3)
X5 == Emp("Sales", "Sales Executive", "Male", 5, "No", 4000, 11, 3, 3, 3, 3)
X10 == Emp("Sales", "Sales Executive", "Male", 10, "No", 4000, 11, 3, 3, 3, 3)

ExperienceRows == <<X1, X2, X5, X10>>

RECURSIVE SeqsUpTo(_, _)
SeqsUpTo(S, n) ==
    IF n = 0 THEN {<<>>}
    ELSE LET shorter == SeqsUpTo(S, n - 1)
         IN  shorter \cup {Append(s, e) : s \in shorter, e \in S}

(***************************************************************************)
(* Fractions                                                               *)
(***************************************************************************)
Frac(n, d) == [nan |-> FALSE, num |-> n, den |-> d]
NaN == [nan |-> TRUE, num |-> 0, den |-> 1]
FracEq(a, b) == a.nan = b.nan /\ (a.nan \/ a.num * b.den = b.num * a.den)
FracLe(a, b) == ~a.nan /\ ~b.nan /\ a.num * b.den <= b.num * a.den
FracSub(a, b) ==
    IF a.nan \/ b.nan THEN NaN
    ELSE Frac(a.num * b.den - b.num * a.den, a.den * b.den)
FracScale(a, k) == IF a.nan THEN NaN ELSE Frac(a.num * k, a.den)

(***************************************************************************)
(* pandas / plotly operations used by the script.  A DataFrame is the      *)
(* sequence of its rows, each [index, rec]: index is the row label, which  *)
(* boolean indexing keeps.                                                 *)
(***************************************************************************)
RECURSIVE SumSeq(_)
SumSeq(s) == IF s = <<>> THEN 0 ELSE Head(s) + SumSeq(Tail(s))

Column(frame, name) == [i \in 1..Len(frame) |-> frame[i].rec[name]]
Unique(series) == {series[i] : i \in 1..Len(series)}
SeriesMin(series) == CHOOSE m \in Unique(series) : \A v \in Unique(series) : m <= v
SeriesMax(series) == CHOOSE m \in Unique(series) : \A v \in Unique(series) : v <= m

\* pd.read_csv: the rows of the file under a RangeIndex 0..n-1
read_csv(f) == [i \in 1..Len(f.rows) |-> [index |-> i - 1, rec |-> f.rows[i]]]

\* Series.isin(values): the boolean mask, by position
isin(series, values) == [i \in 1..Len(series) |-> series[i] \in values]
\* faulty variant: between(..., inclusive="left") drops the upper bound
between_exclusive(series, left, right) ==
    [i \in 1..Len(series) |-> left <= series[i] /\ series[i] < right]

\* Series.between(left, right): inclusive on both sides
between(series, left, right) ==
    [i \in 1..Len(series) |-> left <= series[i] /\ series[i] <= right]

\* faulty variant: the mask is applied one row late
BoolIndex_shifted(frame, mask) ==
    LET keep[i \in 0..Len(frame)] ==
            IF i = 0 THEN <<>>
            ELSE IF i > 1 /\ mask[i - 1] THEN Append(keep[i - 1], frame[i])
            ELSE keep[i - 1]
    IN  keep[Len(frame)]

\* df[mask]: the rows whose mask is True, in the frame's order
RECURSIVE BoolIndex(_, _)
BoolIndex(frame, mask) ==
    IF frame = <<>> THEN <<>>
    ELSE LET rest == BoolIndex(Tail(frame), Tail(mask))
         IN  IF Head(mask) THEN <<Head(frame)>> \o rest ELSE rest

\* Series.mean(): NaN for an empty series
Mean(series) ==
    IF Len(series) = 0 THEN NaN ELSE Frac(SumSeq(series), Len(series))

\* faulty variant: value_counts() without normalize=True gives counts, not shares
value_counts_raw(series) ==
    [v \in Unique(series) |->
        Frac(Cardinality({i \in 1..Len(series) : series[i] = v}), 1)]

\* Series.value_counts(normalize=True): observed value -> share of the rows
value_counts(series) ==
    [v \in Unique(series) |->
        Frac(Cardinality({i \in 1..Len(series) : series[i] = v}), Len(series))]
\* Series.get(key, default)
Get(s, key, default) == IF key \in DOMAIN s THEN s[key] ELSE default

\* DataFrame.groupby(key): one group per value of the key that occurs
groupby(frame, key) ==
    [g \in Unique(Column(frame, key)) |->
        BoolIndex(frame, isin(Column(frame, key), {g}))]

\* elementwise & of two boolean masks
MaskAnd(a, b) == [i \in 1..Len(a) |-> a[i] /\ b[i]]

\* DataFrame.round(2) of one cell: nearest hundredth, ties to even
Round2(x) ==
    IF x.nan THEN NaN
    ELSE LET t == 100 * x.num
             q == t \div x.den
             r == t % x.den
         IN  IF 2 * r > x.den \/ (2 * r = x.den /\ q % 2 = 1)
             THEN Frac(q + 1, 100) ELSE Frac(q, 100)

\* the square of Series.std() (ddof=1): NaN for fewer than two values
Variance(series) ==
    LET n == Len(series)
        sq == [i \in 1..n |-> series[i] * series[i]]
    IN  IF n < 2 THEN NaN
        ELSE Frac(n * SumSeq(sq) - SumSeq(series) * SumSeq(series), n * (n - 1))

(***************************************************************************)
(* The script                                                              *)
(***************************************************************************)
Unbound == [state |-> "unbound", rows |-> <<>>]
None == [state |-> "None", rows |-> <<>>]
Loaded(frame) == [state |-> "frame", rows |-> frame]

Unread == [read |-> FALSE]
Absent == [present |-> FALSE, rows |-> <<>>]
NotComputed == [computed |-> FALSE]

\* faulty variant: a failed read returns an empty table instead of None
load_data_body_partial(f) ==
    IF f.ok THEN [value |-> Loaded(read_csv(f)), msgs |-> <<>>]
    ELSE [value |-> Loaded(<<>>), msgs |-> <<"load_error">>]

\* body of load_data: the table, or an st.error and None when read_csv raises
load_data_body(f) ==
    IF f.ok THEN [value |-> Loaded(read_csv(f)), msgs |-> <<>>]
    ELSE [value |-> None, msgs |-> <<"load_error">>]

\* faulty variant: load_data without @st.cache_data reads the file in every run
load_data_uncached(c, f) ==
    [value |-> load_data_body(f).value, msgs |-> load_data_body(f).msgs,
     cache |-> <<load_data_body(f)>>]

\* @st.cache_data load_data(): the body runs on a cache miss only; a hit
\* returns the stored value and replays the stored st.error
load_data(c, f) ==
    IF c # <<>> THEN [value |-> c[1].value, msgs |-> c[1].msgs, cache |-> c]
    ELSE LET r == load_data_body(f)
         IN  [value |-> r.value, msgs |-> r.msgs, cache |-> <<r>>]

\* options= and default= of the three multiselects: sorted(df[col].unique());
\* only membership in the selection is used, so a selection is a set
Options(frame, col) == Unique(Column(frame, col))

\* faulty variant: the slider's default stops one year short of the maximum
SliderDefault_short(frame) ==
    <<SeriesMin(Column(frame, "TotalWorkingYears")),
      SeriesMax(Column(frame, "TotalWorkingYears")) - 1>>

\* value= of the slider: (int(min), int(max)) of TotalWorkingYears
SliderDefault(frame) ==
    <<SeriesMin(Column(frame, "TotalWorkingYears")),
      SeriesMax(Column(frame, "TotalWorkingYears"))>>

\* what the four widgets return when the user has not touched them
SidebarDefault(frame) ==
    [read |-> TRUE,
     departments |-> Options(frame, "Department"),
     roles |-> Options(frame, "JobRole"),
     gender_filter |-> Options(frame, "Gender"),
     exp_range |-> SliderDefault(frame)]

\* every value the four widgets can return for a given dataset: any subset of
\* the options, any (low, high) with min <= low <= high <= max
SidebarValues(frame) ==
    IF frame = <<>> THEN {}
    ELSE LET lo == SliderDefault(frame)[1]
             hi == SliderDefault(frame)[2]
         IN  {c \in [read : {TRUE},
                     departments : SUBSET Options(frame, "Department"),
                     roles : SUBSET Options(frame, "JobRole"),
                     gender_filter : SUBSET Options(frame, "Gender"),
                     exp_range : (lo..hi) \X (lo..hi)] :
                c.exp_range[1] <= c.exp_range[2]}

\* filtered_df = df[isin & isin & isin & between]
Filter(frame, c) ==
    BoolIndex(frame,
        MaskAnd(MaskAnd(MaskAnd(isin(Column(frame, "Department"), c.departments),
                                isin(Column(frame, "JobRole"), c.roles)),
                        isin(Column(frame, "Gender"), c.gender_filter)),
                between(Column(frame, "TotalWorkingYears"),
                        c.exp_range[1], c.exp_range[2])))

\* faulty variant: the view is stored only if the session holds none yet
SessionStore_keep(old, frame) ==
    IF old.present THEN old ELSE [present |-> TRUE, rows |-> frame]

\* st.session_state.filtered_df = filtered_df
SessionStore(old, frame) == [present |-> TRUE, rows |-> frame]

\* value_counts(normalize=True).get('Yes', 0) * 100
AttritionRate(frame) ==
    FracScale(Get(value_counts(Column(frame, "Attrition")), "Yes", Frac(0, 1)), 100)

\* the three metrics of tab 1 and their deltas against the whole dataset
KeyMetrics(view, frame) ==
    [computed |-> TRUE,
     attrition_rate |-> AttritionRate(view),
     attrition_delta |-> FracSub(AttritionRate(view), AttritionRate(frame)),
     avg_satisfaction |-> Mean(Column(view, "JobSatisfaction")),
     satisfaction_delta |-> FracSub(Mean(Column(view, "JobSatisfaction")),
                                    Mean(Column(frame, "JobSatisfaction"))),
     avg_salary |-> Mean(Column(view, "MonthlyIncome")),
     salary_delta |-> FracSub(Mean(Column(view, "MonthlyIncome")),
                              Mean(Column(frame, "MonthlyIncome")))]

\* faulty variant: .sum() in place of .mean()
YesShare_sum(series) ==
    Frac(100 * SumSeq([i \in 1..Len(series) |-> IF series[i] = "Yes" THEN 1 ELSE 0]), 1)

\* lambda x: (x == 'Yes').mean() * 100
YesShare(series) ==
    FracScale(Mean([i \in 1..Len(series) |-> IF series[i] = "Yes" THEN 1 ELSE 0]), 100)

\* groupby('Department')['Attrition'].apply(...).reset_index()
DeptAttrition(view) ==
    LET groups == groupby(view, "Department")
    IN  [computed |-> TRUE,
         table |-> [d \in DOMAIN groups |-> YesShare(Column(groups[d], "Attrition"))]]

\* dept_attrition[dept_attrition['Department'] == 'Sales']['Attrition'].values[0]
\* raises IndexError when the table has no Sales row
AnnotationRaises(t) == "Sales" \notin DOMAIN t.table

\* groupby('JobRole').agg({...}).round(2); the 'Std Dev' cell is held as its
\* square (the sample variance), unrounded
SalaryStats(view) ==
    LET groups == groupby(view, "JobRole")
    IN  [computed |-> TRUE,
         table |-> [r \in DOMAIN groups |->
            LET income == Column(groups[r], "MonthlyIncome")
            IN  [AvgSalary |-> Round2(Mean(income)),
                 MinSalary |-> SeriesMin(income),
                 MaxSalary |-> SeriesMax(income),
                 StdDevSq |-> Variance(income),
                 AvgHike |-> Round2(Mean(Column(groups[r], "PercentSalaryHike")))]]]

satisfaction_metrics ==
    {"JobSatisfaction", "EnvironmentSatisfaction",
     "RelationshipSatisfaction", "WorkLifeBalance"}

\* tab 4: pd.crosstab, the multi-field mean, and pd.melt of the per-department means
Satisfaction(view) ==
    LET js == Column(view, "JobSatisfaction")
        wlb == Column(view, "WorkLifeBalance")
        groups == groupby(view, "Department")
    IN  [computed |-> TRUE,
         crosstab |-> [p \in Unique(js) \X Unique(wlb) |->
            Cardinality({i \in 1..Len(view) : js[i] = p[1] /\ wlb[i] = p[2]})],
         avg_satisfaction |-> [m \in satisfaction_metrics |-> Mean(Column(view, m))],
         env_sat_long |-> {[Department |-> d, Metric |-> m,
                            Score |-> Mean(Column(groups[d], m))] :
                                d \in DOMAIN groups, m \in satisfaction_metrics}]

(***************************************************************************)
(* State machine: one run of the script, step by step                      *)
(***************************************************************************)
Untouched == [set |-> FALSE]

FreshRun ==
    /\ pc' = "load"
    /\ df' = Unbound
    /\ criteria' = Unread
    /\ shown' = <<>>
    /\ metrics' = NotComputed
    /\ dept_attrition' = NotComputed
    /\ salary_stats' = NotComputed
    /\ satisfaction' = NotComputed

\* lines 9-69: page set-up, title, df = load_data(), if df is not None
Load ==
    /\ pc = "load"
    /\ LET r == load_data(cache, file)
       IN  /\ df' = r.value
           /\ cache' = r.cache
           /\ shown' = <<"title">> \o r.msgs
           /\ pc' = IF r.value = None THEN "else" ELSE "sidebar"
    /\ UNCHANGED <<file, widgets, criteria, session, metrics, dept_attrition,
                   salary_stats, satisfaction>>

\* lines 368-369: the else branch
UnableToLoad ==
    /\ pc = "else"
    /\ shown' = Append(shown, "unable_to_load")
    /\ pc' = "done"
    /\ UNCHANGED <<file, cache, df, widgets, criteria, session, metrics,
                   dept_attrition, salary_stats, satisfaction>>

\* lines 71-100: the four sidebar widgets.  int(min()) of an empty column
\* raises ValueError (min() is NaN), which ends the run.
Sidebar ==
    /\ pc = "sidebar"
    /\ IF df.rows = <<>>
       THEN /\ pc' = "raised"
            /\ shown' = shown \o <<"sidebar", "exception">>
            /\ UNCHANGED <<widgets, criteria>>
       ELSE /\ criteria' = IF widgets.set THEN widgets.value
                           ELSE SidebarDefault(df.rows)
            /\ widgets' = [set |-> TRUE, value |-> criteria']
            /\ shown' = Append(shown, "sidebar")
            /\ pc' = "filter"
    /\ UNCHANGED <<file, cache, df, session, metrics, dept_attrition,
                   salary_stats, satisfaction>>

\* lines 103-111: filtered_df and st.session_state.filtered_df
FilterStore ==
    /\ pc = "filter"
    /\ session' = SessionStore(session, Filter(df.rows, criteria))
    /\ pc' = "tab1"
    /\ UNCHANGED <<file, cache, df, widgets, criteria, shown, metrics,
                   dept_attrition, salary_stats, satisfaction>>

\* lines 122-207: key metrics, department pie, attrition by department and
\* its annotation, which raises when the table has no Sales row
Tab1 ==
    /\ pc = "tab1"
    /\ metrics' = KeyMetrics(session.rows, df.rows)
    /\ dept_attrition' = DeptAttrition(session.rows)
    /\ IF AnnotationRaises(dept_attrition')
       THEN /\ shown' = shown \o <<"metrics", "dept_dist", "exception">>
            /\ pc' = "raised"
       ELSE /\ shown' = shown \o <<"metrics", "dept_dist", "attrition_chart">>
            /\ pc' = "tab2"
    /\ UNCHANGED <<file, cache, df, widgets, criteria, session, salary_stats,
                   satisfaction>>

\* lines 210-253: three charts drawn by plotly from the stored view
Tab2 ==
    /\ pc = "tab2"
    /\ shown' = shown \o <<"age_dist", "edu_dist", "exp_perf">>
    /\ pc' = "tab3"
    /\ UNCHANGED <<file, cache, df, widgets, criteria, session, metrics,
                   dept_attrition, salary_stats, satisfaction>>

\* lines 256-298: salary charts and the salary table
Tab3 ==
    /\ pc = "tab3"
    /\ salary_stats' = SalaryStats(session.rows)
    /\ shown' = shown \o <<"salary_chart", "salary_dist", "salary_stats">>
    /\ pc' = "tab4"
    /\ UNCHANGED <<file, cache, df, widgets, criteria, session, metrics,
                   dept_attrition, satisfaction>>

\* lines 304-363: heatmap, radar, satisfaction by department
Tab4 ==
    /\ pc = "tab4"
    /\ satisfaction' = Satisfaction(session.rows)
    /\ shown' = shown \o <<"heatmap", "radar", "satisfaction_by_dept">>
    /\ pc' = "footer"
    /\ UNCHANGED <<file, cache, df, widgets, criteria, session, metrics,
                   dept_attrition, salary_stats>>

\* lines 366-367
Footer ==
    /\ pc = "footer"
    /\ shown' = Append(shown, "footer")
    /\ pc' = "done"
    /\ UNCHANGED <<file, cache, df, widgets, criteria, session, metrics,
                   dept_attrition, salary_stats, satisfaction>>

\* the user changes one widget that has been rendered: Streamlit stops the
\* current run, if any, and reruns the script from the top
Interact ==
    /\ widgets.set
    /\ cache # <<>>
    /\ \E c \in SidebarValues(cache[1].value.rows) :
          /\ c # widgets.value
          /\ \/ c.roles = widgets.value.roles
                /\ c.gender_filter = widgets.value.gender_filter
                /\ c.exp_range = widgets.value.exp_range
             \/ c.departments = widgets.value.departments
                /\ c.gender_filter = widgets.value.gender_filter
                /\ c.exp_range = widgets.value.exp_range
             \/ c.departments = widgets.value.departments
                /\ c.roles = widgets.value.roles
                /\ c.exp_range = widgets.value.exp_range
             \/ c.departments = widgets.value.departments
                /\ c.roles = widgets.value.roles
                /\ c.gender_filter = widgets.value.gender_filter
          /\ widgets' = [set |-> TRUE, value |-> c]
    /\ FreshRun
    /\ UNCHANGED <<file, cache, session>>

\* the user reruns the script without changing a widget
Rerun ==
    /\ pc \in {"done", "raised"}
    /\ FreshRun
    /\ UNCHANGED <<file, cache, widgets, session>>

\* HR_Analytics.csv is removed or corrupted on disk
FileLost ==
    /\ file.ok
    /\ file' = [ok |-> FALSE, rows |-> <<>>]
    /\ UNCHANGED <<cache, df, widgets, criteria, session, pc, shown, metrics,
                   dept_attrition, salary_stats, satisfaction>>

RunStep ==
    \/ Load
    \/ UnableToLoad
    \/ Sidebar
    \/ FilterStore
    \/ Tab1
    \/ Tab2
    \/ Tab3
    \/ Tab4
    \/ Footer

Unreadable == [ok |-> FALSE, rows |-> <<>>]
Files(S, n) == {[ok |-> TRUE, rows |-> r] : r \in SeqsUpTo(S, n)} \cup {Unreadable}

InitRun ==
    /\ cache = <<>>
    /\ df = Unbound
    /\ criteria = Unread
    /\ session = Absent
    /\ pc = "load"
    /\ shown = <<>>
    /\ metrics = NotComputed
    /\ dept_attrition = NotComputed
    /\ salary_stats = NotComputed
    /\ satisfaction = NotComputed

\* a session: the first run starts with no cache entry and untouched widgets
Init ==
    /\ file \in Files(SessionEmployees, MaxFileRecords)
    /\ widgets = Untouched
    /\ InitRun

Next ==
    \/ RunStep
    \/ Interact
    \/ Rerun
    \/ FileLost

Spec == Init /\ [][Next]_vars

\* one run of the script for every dataset and every selection of the widgets
InitFilter ==
    /\ file \in Files(Employees, MaxRecords) \cup {[ok |-> TRUE, rows |-> ExperienceRows]}
    /\ widgets \in {Untouched} \cup
          {[set |-> TRUE, value |-> c] : c \in SidebarValues(read_csv(file))}
    /\ InitRun

SpecFilter == InitFilter /\ [][RunStep]_vars

(***************************************************************************)
(* Properties                                                              *)
(***************************************************************************)
\* the four clauses of the filter contract, on one record
Satisfies(rec, c) ==
    /\ rec.Department \in c.departments
    /\ rec.JobRole \in c.roles
    /\ rec.Gender \in c.gender_filter
    /\ c.exp_range[1] <= rec.TotalWorkingYears
    /\ rec.TotalWorkingYears <= c.exp_range[2]

\* every observed category selected, the whole observed range of experience
FullDomain(c, frame) ==
    /\ c.departments = {frame[i].rec.Department : i \in 1..Len(frame)}
    /\ c.roles = {frame[i].rec.JobRole : i \in 1..Len(frame)}
    /\ c.gender_filter = {frame[i].rec.Gender : i \in 1..Len(frame)}
    /\ \A i \in 1..Len(frame) :
          /\ c.exp_range[1] <= frame[i].rec.TotalWorkingYears
          /\ frame[i].rec.TotalWorkingYears <= c.exp_range[2]
    /\ \E i, j \in 1..Len(frame) :
          /\ c.exp_range[1] = frame[i].rec.TotalWorkingYears
          /\ c.exp_range[2] = frame[j].rec.TotalWorkingYears

YesCount(frame) == Cardinality({i \in 1..Len(frame) : frame[i].rec.Attrition = "Yes"})

\* the view of this run has been computed and stored
ViewStored == df.state = "frame" /\ criteria.read /\ session.present

\* C1: the stored FilteredView holds exactly the rows of the Dataset that satisfy
\* all four clauses (both bounds of the experience range inclusive), each once,
\* unchanged and in the Dataset's order.
C1_FilterExact ==
    ViewStored =>
        LET view == session.rows
            keep == {i \in 1..Len(df.rows) : Satisfies(df.rows[i].rec, criteria)}
        IN  /\ {view[j].index : j \in 1..Len(view)} = {df.rows[i].index : i \in keep}
            /\ Len(view) = Cardinality(keep)
            /\ \A j \in 1..Len(view) : view[j] = df.rows[view[j].index + 1]
            /\ \A j, k \in 1..Len(view) : j < k => view[j].index < view[k].index

\* range (2,5) over experience 1, 2, 5, 10 keeps the records with 2 and 5
C1_Witness ==
    /\ ViewStored
    /\ Column(df.rows, "TotalWorkingYears") = <<1, 2, 5, 10>>
    /\ criteria.exp_range = <<2, 5>>
    /\ Column(session.rows, "TotalWorkingYears") = <<2, 5>>

\* C2: under the criteria the untouched sidebar controls return, every observed
\* value is selected and the stored FilteredView is the Dataset itself.
C2_DefaultIsWholeDataset ==
    (ViewStored /\ criteria = SidebarDefault(df.rows)) =>
        /\ FullDomain(criteria, df.rows)
        /\ session.rows = df.rows

C2_Witness ==
    /\ ViewStored
    /\ criteria = SidebarDefault(df.rows)
    /\ Len(session.rows) = 3
    /\ Cardinality(criteria.departments) = 2
    /\ criteria.exp_range[1] < criteria.exp_range[2]

\* C3 (as claimed): a run whose FilteredView is empty does not fail, and its
\* overall attrition rate is 0.
C3_EmptyViewRunCompletes ==
    (ViewStored /\ session.rows = <<>>) =>
        /\ pc # "raised"
        /\ metrics.computed => FracEq(metrics.attrition_rate, Frac(0, 1))

\* C4: for a non-empty FilteredView the overall attrition rate is
\* 100 * (Yes records) / |FilteredView|, it lies in [0, 100], and its delta is
\* that rate minus the rate of the whole Dataset (0 under the full domain).
C4_AttritionRate ==
    (ViewStored /\ metrics.computed /\ session.rows # <<>>) =>
        LET rate == Frac(100 * YesCount(session.rows), Len(session.rows))
            base == Frac(100 * YesCount(df.rows), Len(df.rows))
        IN  /\ FracEq(metrics.attrition_rate, rate)
            /\ FracLe(Frac(0, 1), metrics.attrition_rate)
            /\ FracLe(metrics.attrition_rate, Frac(100, 1))
            /\ FracEq(metrics.attrition_delta, FracSub(rate, base))
            /\ FullDomain(criteria, df.rows) =>
                  FracEq(metrics.attrition_delta, Frac(0, 1))

\* Sales/Yes/4000, Sales/No/5000, R&D/No/6000 filtered to Department = {Sales}
C4_Witness ==
    /\ ViewStored
    /\ metrics.computed
    /\ Len(df.rows) = 3
    /\ \A i \in 1..3 : df.rows[i].rec = <<E1, E2, E3>>[i]
    /\ criteria = [SidebarDefault(df.rows) EXCEPT !.departments = {"Sales"}]
    /\ Len(session.rows) = 2
    /\ FracEq(metrics.attrition_rate, Frac(50, 1))
    /\ FracEq(metrics.avg_salary, Frac(4500, 1))

RECURSIVE SumSizes(_, _)
SumSizes(groups, keys) ==
    IF keys = {} THEN 0
    ELSE LET k == CHOOSE x \in keys : TRUE
         IN  Len(groups[k]) + SumSizes(groups, keys \ {k})

\* C5: the group-wise attrition table has one row per Department that occurs in
\* the FilteredView and no other, each row is 100 * (Yes in group) / (group size),
\* and the group sizes sum to |FilteredView|.
C5_DeptAttrition ==
    (ViewStored /\ dept_attrition.computed) =>
        LET view == session.rows
            members(d) == {i \in 1..Len(view) : view[i].rec.Department = d}
            yes(d) == {i \in members(d) : view[i].rec.Attrition = "Yes"}
            groups == groupby(view, "Department")
        IN  /\ DOMAIN dept_attrition.table =
                  {view[i].rec.Department : i \in 1..Len(view)}
            /\ \A d \in DOMAIN dept_attrition.table :
                  /\ members(d) # {}
                  /\ FracEq(dept_attrition.table[d],
                            Frac(100 * Cardinality(yes(d)), Cardinality(members(d))))
            /\ DOMAIN groups = DOMAIN dept_attrition.table
            /\ \A d \in DOMAIN groups : Len(groups[d]) = Cardinality(members(d))
            /\ SumSizes(groups, DOMAIN groups) = Len(view)

\* a Department of the Dataset with no member in the view is omitted
C5_Witness ==
    /\ ViewStored
    /\ dept_attrition.computed
    /\ Cardinality(Options(df.rows, "Department")) = 2
    /\ DOMAIN dept_attrition.table = {"Sales"}
    /\ Len(session.rows) = 2
    /\ FracEq(dept_attrition.table["Sales"], Frac(50, 1))

\* C6: filtering the stored FilteredView again with the same criteria yields the
\* same FilteredView, rows and order.
C6_FilterIdempotent ==
    ViewStored => Filter(session.rows, criteria) = session.rows

C6_Witness ==
    /\ ViewStored
    /\ Len(df.rows) = 3
    /\ Len(session.rows) = 2
    /\ session.rows[1].index = 0
    /\ session.rows[2].index = 2

\* C7: a load failure yields an error message and None, never a table; and in a
\* run whose df is None no criteria are read, no view is stored, no aggregation
\* is computed and nothing but the title and the two errors is rendered.
C7_LoadFailureTerminal ==
    /\ (cache # <<>> /\ cache[1].msgs # <<>>) => cache[1].value = None
    /\ (cache # <<>> /\ cache[1].value = None) => cache[1].msgs = <<"load_error">>
    /\ df = None =>
          /\ criteria = Unread
          /\ widgets = Untouched
          /\ session = Absent
          /\ metrics = NotComputed
          /\ dept_attrition = NotComputed
          /\ salary_stats = NotComputed
          /\ satisfaction = NotComputed
          /\ \/ pc = "else" /\ shown = <<"title", "load_error">>
             \/ pc = "done" /\ shown = <<"title", "load_error", "unable_to_load">>

C7_Witness ==
    /\ df = None
    /\ pc = "done"
    /\ shown = <<"title", "load_error", "unable_to_load">>

\* C8 (as claimed): a run whose FilteredView is not empty raises nowhere.
C8_NonEmptyViewRunCompletes ==
    (ViewStored /\ session.rows # <<>>) => pc # "raised"

\* C9: once loaded, the Dataset never changes: every later run binds df to the
\* same table, whatever happens to the widgets, the stored view and the file.
C9_DatasetImmutable ==
    [][(cache # <<>> /\ cache[1].value.state = "frame") =>
          /\ cache' = cache
          /\ df' \in {Unbound, cache[1].value}]_vars

\* a later run, after the file was lost and the widgets changed, on the Dataset
C9_Witness ==
    /\ ~file.ok
    /\ df.state = "frame"
    /\ df.rows # <<>>
    /\ ViewStored
    /\ criteria # SidebarDefault(df.rows)
    /\ metrics.computed

\* C10: whatever a run has computed, it computed from the filter of the Dataset
\* under the widgets' current values: the stored view is overwritten before
\* tab 1 reads it.
C10_NoStaleRead ==
    LET current == Filter(df.rows, widgets.value)
    IN  /\ pc \in {"tab1", "tab2", "tab3", "tab4", "footer"} =>
              session.present /\ session.rows = current
        /\ metrics.computed => metrics = KeyMetrics(current, df.rows)
        /\ dept_attrition.computed => dept_attrition = DeptAttrition(current)
        /\ salary_stats.computed => salary_stats = SalaryStats(current)
        /\ satisfaction.computed => satisfaction = Satisfaction(current)

\* a completed run on a view that differs from the one an earlier run stored
C10_Witness ==
    /\ pc = "done"
    /\ df.state = "frame"
    /\ criteria # SidebarDefault(df.rows)
    /\ session.rows # df.rows
    /\ satisfaction.computed
    /\ satisfaction = Satisfaction(Filter(df.rows, widgets.value))

====
